---- MODULE Spec2Model ----
(***************************************************************************)
(* Model of the PostGIS GeoJSON API backend (backend/db.py and             *)
(* backend/backend/main.py): the geometry adapter of db.py and the ten     *)
(* POST handlers of main.py, each followed from the reading of its payload *)
(* to its response.  The spatial engine and the connection factory are the *)
(* environment: what a query returns is chosen nondeterministically among  *)
(* the results the SQL text allows.                                        *)
(***************************************************************************)
EXTENDS Integers, Sequences, FiniteSets, TLC

(***************************************************************************)
(* Bounds of the model.                                                    *)
(***************************************************************************)
\* how many times a string may wrap a JSON text of a JSON text
MaxDepth == 2
\* longest list accepted for the union "geoms" field
MaxGeoms == 2
\* most rows a query returns
MaxRows == 2
\* largest distance (planar or geodesic) the engine reports
MaxDist == 2
\* most rows handed to rows_to_featurecollection on its own
MaxFcRows == 2

(***************************************************************************)
(* Python / JSON values.  Every value is a record with a kind k.           *)
(*   none   None (JSON null)                                               *)
(*   absent the key is not in the payload (only payload fields)            *)
(*   int    an integer n                                                   *)
(*   num    a float of magnitude n                                         *)
(*   text   a string s that is not a JSON text                             *)
(*   json   a string that is the JSON text of the value enc                *)
(*   list   a list of items                                                *)
(*   dict   a mapping; ty is <<>> when it has no "type" key and <<t>> when *)
(*          its "type" is t; geo likewise for its "geometry" key           *)
(***************************************************************************)
NoneV == [k |-> "none"]
Absent == [k |-> "absent"]
IntV(n) == [k |-> "int", n |-> n]
NumV(n) == [k |-> "num", n |-> n]
TextV(s) == [k |-> "text", s |-> s]
JsonV(v) == [k |-> "json", enc |-> v]
ListV(items) == [k |-> "list", items |-> items]
DictV(ty, geo) == [k |-> "dict", ty |-> ty, geo |-> geo]

\* isinstance(v, str)
IsStr(v) == v.k \in {"text", "json"}
\* isinstance(v, dict)
IsDict(v) == v.k = "dict"

\* Python truthiness, as used by `x or default` and `if x:`
Truthy(v) ==
  CASE v.k \in {"none", "absent"} -> FALSE
    [] v.k \in {"int", "num"} -> v.n # 0
    [] v.k = "text" -> v.s # ""
    [] v.k = "json" -> TRUE
    [] v.k = "list" -> v.items # <<>>
    [] OTHER -> TRUE

\* json.dumps(v): the string holding the JSON text of v
json_dumps(v) == JsonV(v)

\* json.loads(s): the value a JSON text encodes; a string that is no JSON
\* text raises JSONDecodeError (a ValueError)
json_loads(s) ==
  IF s.k = "json" THEN [ok |-> TRUE, val |-> s.enc, err |-> ""]
  ELSE [ok |-> FALSE, val |-> NoneV, err |-> "JSONDecodeError"]

(***************************************************************************)
(* db.py: the geometry adapter.                                            *)
(***************************************************************************)
\* the mapping's .get("geometry")
DictGetGeometry(d) == IF d.geo = <<>> THEN NoneV ELSE d.geo[1]

\* parse_geojson_geometry decoding a string twice
parse_geojson_geometry_twice(geojson_obj) ==
  IF geojson_obj = NoneV
  THEN [ok |-> FALSE, val |-> NoneV, err |-> "ValueError"]
  ELSE LET once == IF IsStr(geojson_obj) THEN json_loads(geojson_obj)
                   ELSE [ok |-> TRUE, val |-> geojson_obj, err |-> ""]
           dec == IF once.ok /\ IsStr(once.val) THEN json_loads(once.val) ELSE once
       IN IF ~dec.ok THEN dec
          ELSE IF ~IsDict(dec.val) \/ dec.val.ty = <<>>
          THEN [ok |-> FALSE, val |-> NoneV, err |-> "ValueError"]
          ELSE IF dec.val.ty = <<"Feature">>
          THEN [ok |-> TRUE, val |-> DictGetGeometry(dec.val), err |-> ""]
          ELSE [ok |-> TRUE, val |-> dec.val, err |-> ""]

\* parse_geojson_geometry(geojson_obj): the Geometry of a Geometry, of a
\* Feature, or of a string holding the JSON text of either
parse_geojson_geometry(geojson_obj) ==
  IF geojson_obj = NoneV
  THEN [ok |-> FALSE, val |-> NoneV, err |-> "ValueError"]
  ELSE LET dec == IF IsStr(geojson_obj) THEN json_loads(geojson_obj)
                  ELSE [ok |-> TRUE, val |-> geojson_obj, err |-> ""]
       IN IF ~dec.ok THEN dec
          ELSE IF ~IsDict(dec.val) \/ dec.val.ty = <<>>
          THEN [ok |-> FALSE, val |-> NoneV, err |-> "ValueError"]
          ELSE IF dec.val.ty = <<"Feature">>
          THEN [ok |-> TRUE, val |-> DictGetGeometry(dec.val), err |-> ""]
          ELSE [ok |-> TRUE, val |-> dec.val, err |-> ""]

\* a row (a mapping from column names to values) without the columns in D
DictWithout(r, D) == [c \in (DOMAIN r) \ D |-> r[c]]

\* r.pop(geom_key, None): the value popped
DictPop(r, key) == IF key \in DOMAIN r THEN r[key] ELSE NoneV

\* one_geom_to_feature(geom_obj, properties)
one_geom_to_feature(geom_obj, properties) ==
  [type |-> "Feature", geometry |-> geom_obj, properties |-> properties]

\* the loop body of rows_to_featurecollection keeping the rows without geometry
FeaturesStepKeepNull(features, r, geom_key) ==
  Append(features, one_geom_to_feature(DictPop(r, geom_key), DictWithout(r, {geom_key})))

\* one turn of the loop of rows_to_featurecollection: the features after row r
FeaturesStep(features, r, geom_key) ==
  LET geom == DictPop(r, geom_key)
  IN IF geom = NoneV THEN features
     ELSE Append(features, [type |-> "Feature", geometry |-> geom,
                            properties |-> DictWithout(r, {geom_key})])

RECURSIVE FeaturesLoop(_, _, _, _)
FeaturesLoop(features, rows, i, geom_key) ==
  IF i > Len(rows) THEN features
  ELSE FeaturesLoop(FeaturesStep(features, rows[i], geom_key), rows, i + 1, geom_key)

\* rows_to_featurecollection(rows, geom_key)
rows_to_featurecollection(rows, geom_key) ==
  [type |-> "FeatureCollection", features |-> FeaturesLoop(<<>>, rows, 1, geom_key)]

(***************************************************************************)
(* db.py: configuration (the defaults of the environment variables).       *)
(***************************************************************************)
REGIONS_TABLE == "regions"
FEATURES_TABLE == "osm_spb_features"

(***************************************************************************)
(* main.py: program constants.                                             *)
(***************************************************************************)
PipDefaultLimit == 200
IntersectsDefaultLimit == 500
WithinDefaultLimit == 500
BufferDefaultLimit == 1000
KnnDefaultK == 10
TransformDefaultEpsg == 3857
HttpBadRequest == 400
HttpNotFound == 404
\* the status of a response to an exception no handler catches (main.py
\* registers no exception handler: the framework answers 500)
HttpServerError == 500
HttpOk == 200

(***************************************************************************)
(* Request payloads: a record of every field a handler reads; a field the  *)
(* client did not send is Absent.                                          *)
(***************************************************************************)
\* payload.get(key)
Get(p, key) == IF p[key].k = "absent" THEN NoneV ELSE p[key]
\* payload.get(key, default)
GetD(p, key, default) == IF p[key].k = "absent" THEN default ELSE p[key]

\* str.lower() on the strings of the model
str_lower(v) ==
  IF v.k = "text"
  THEN TextV(CASE v.s = "Regions" -> "regions"
               [] v.s = "REGIONS" -> "regions"
               [] OTHER -> v.s)
  ELSE v

\* int(v): ok with the integer, or the exception int raises
PyInt(v) ==
  CASE v.k = "int" -> [ok |-> TRUE, n |-> v.n, err |-> ""]
    [] v.k = "num" -> [ok |-> TRUE, n |-> v.n, err |-> ""]
    [] v.k = "json" /\ v.enc.k = "int" -> [ok |-> TRUE, n |-> v.enc.n, err |-> ""]
    [] v.k \in {"text", "json"} -> [ok |-> FALSE, n |-> 0, err |-> "ValueError"]
    [] OTHER -> [ok |-> FALSE, n |-> 0, err |-> "TypeError"]

(***************************************************************************)
(* What a handler's code before its `with get_conn()` block comes to:      *)
(* an exception, or the statements to execute (SQL text and the bound      *)
(* parameters).                                                            *)
(***************************************************************************)
\* an exception that is no HTTPException leaves the handler: the framework
\* answers 500
Raise(e) ==
  [out |-> "raise", exc |-> e, status |-> HttpServerError,
   detail |-> "Internal Server Error", stmts |-> <<>>]
\* raise HTTPException(code, msg)
HTTPException(code, msg) ==
  [out |-> "raise", exc |-> "HTTPException", status |-> code,
   detail |-> msg, stmts |-> <<>>]
Proceed(stmts) ==
  [out |-> "ok", exc |-> "", status |-> 0, detail |-> "", stmts |-> stmts]
Stmt(sql, params) == [sql |-> sql, params |-> params]

\* the table name taken from the client's source string
SelectTableFromClient(source) ==
  IF source = TextV("regions") THEN REGIONS_TABLE
  ELSE IF source.k = "text" THEN source.s ELSE FEATURES_TABLE

\* table = REGIONS_TABLE if source == "regions" else FEATURES_TABLE
SelectTable(source) ==
  IF source = TextV("regions") THEN REGIONS_TABLE ELSE FEATURES_TABLE

\* the SQL texts, as the f-strings build them: the pieces in order
PipSql(table) ==
  <<"SELECT id, COALESCE(name, '') AS name, ST_AsGeoJSON(geom)::json AS geom_geojson FROM ",
    table,
    " WHERE GeometryType(geom) IN ('POLYGON','MULTIPOLYGON') AND ST_Covers(geom, ST_SetSRID(ST_MakePoint(%s, %s), 4326)) LIMIT %s;">>
IntersectsSql(table) ==
  <<"WITH q AS (SELECT ST_SetSRID(ST_GeomFromGeoJSON(%s), 4326) AS g) SELECT id, COALESCE(name, '') AS name, ST_AsGeoJSON(geom)::json AS geom_geojson FROM ",
    table,
    ", q WHERE ST_Intersects(geom, q.g) LIMIT %s;">>
WithinSql ==
  <<"WITH p AS (SELECT ST_SetSRID(ST_MakePoint(%s, %s), 4326) AS pt) SELECT id, osmid, element_type, name, tags, ST_Distance(geom::geography, p.pt::geography) AS dist_m, ST_AsGeoJSON(geom)::json AS geom_geojson FROM ",
    FEATURES_TABLE,
    ", p WHERE ST_DWithin(geom::geography, p.pt::geography, %s) ORDER BY dist_m LIMIT %s;">>
BufferSql ==
  <<"SELECT ST_AsGeoJSON(ST_Buffer(ST_SetSRID(ST_MakePoint(%s,%s),4326)::geography, %s)::geometry)::json AS geom_geojson;">>
HitsSql ==
  <<"WITH buf AS (SELECT ST_Buffer(ST_SetSRID(ST_MakePoint(%s,%s),4326)::geography, %s)::geometry AS g) SELECT id, osmid, element_type, name, tags, ST_AsGeoJSON(geom)::json AS geom_geojson FROM ",
    FEATURES_TABLE,
    ", buf WHERE ST_Intersects(geom, buf.g) LIMIT %s;">>
AreaSql ==
  <<"WITH q AS (SELECT ST_SetSRID(ST_GeomFromGeoJSON(%s), 4326) AS g) SELECT ST_Area(q.g::geography) AS area_m2, ST_Area(q.g::geography)/1e6 AS area_km2 FROM q;">>
PerimeterSql ==
  <<"WITH q AS (SELECT ST_SetSRID(ST_GeomFromGeoJSON(%s), 4326) AS g) SELECT ST_Perimeter(q.g::geography) AS perim_m, ST_Perimeter(q.g::geography)/1000 AS perim_km FROM q;">>
KnnSql ==
  <<"WITH p AS (SELECT ST_SetSRID(ST_MakePoint(%s, %s), 4326) AS pt) SELECT id, osmid, element_type, name, tags, ST_Distance(geom::geography, p.pt::geography) AS dist_m, ST_AsGeoJSON(geom)::json AS geom_geojson FROM ",
    FEATURES_TABLE,
    ", p ORDER BY geom <-> p.pt LIMIT %s;">>
UnionIdsSql ==
  <<"SELECT ST_AsGeoJSON(ST_Union(geom))::json AS geom_geojson FROM ",
    REGIONS_TABLE,
    " WHERE id = ANY(%s);">>
UnionGeomsSql ==
  <<"WITH arr AS (SELECT ARRAY(SELECT ST_SetSRID(ST_GeomFromGeoJSON(x), 4326) FROM unnest(%s::text[]) AS x) AS gs) SELECT ST_AsGeoJSON(ST_Union(gs))::json AS geom_geojson FROM arr;">>
IntersectionSql ==
  <<"WITH q AS (SELECT ST_SetSRID(ST_GeomFromGeoJSON(%s), 4326) AS a, ST_SetSRID(ST_GeomFromGeoJSON(%s), 4326) AS b) SELECT ST_AsGeoJSON(ST_Intersection(a, b))::json AS geom_geojson, ST_Area(ST_Intersection(a, b)::geography) AS area_m2 FROM q;">>
TransformSql ==
  <<"WITH q AS (SELECT ST_SetSRID(ST_GeomFromGeoJSON(%s), 4326) AS g) SELECT ST_AsGeoJSON(q.g)::json AS geom_wgs84, ST_AsGeoJSON(ST_Transform(q.g, %s))::json AS geom_transformed FROM q;">>

\* (payload.get("source") or "features")
SourceOrDefault(p) ==
  IF Truthy(Get(p, "source")) THEN Get(p, "source") ELSE TextV("features")

\* point_in_polygon, lines 34-52
pip_prologue(p) ==
  IF ~IsStr(SourceOrDefault(p)) THEN Raise("AttributeError")
  ELSE LET source == str_lower(SourceOrDefault(p))
           limit == PyInt(GetD(p, "limit", IntV(PipDefaultLimit)))
       IN IF ~limit.ok THEN Raise(limit.err)
          ELSE IF Get(p, "lon") = NoneV \/ Get(p, "lat") = NoneV
          THEN HTTPException(HttpBadRequest, "lon/lat required")
          ELSE Proceed(<<Stmt(PipSql(SelectTable(source)),
                              <<Get(p, "lon"), Get(p, "lat"), IntV(limit.n)>>)>>)

\* polygon_intersects, lines 65-81
intersects_prologue(p) ==
  LET geom == parse_geojson_geometry(Get(p, "geojson"))
  IN IF ~geom.ok THEN Raise(geom.err)
     ELSE IF ~IsStr(SourceOrDefault(p)) THEN Raise("AttributeError")
     ELSE LET source == str_lower(SourceOrDefault(p))
              limit == PyInt(GetD(p, "limit", IntV(IntersectsDefaultLimit)))
          IN IF ~limit.ok THEN Raise(limit.err)
             ELSE Proceed(<<Stmt(IntersectsSql(SelectTable(source)),
                                 <<json_dumps(geom.val), IntV(limit.n)>>)>>)

\* within_distance, lines 93-113
within_prologue(p) ==
  LET limit == PyInt(GetD(p, "limit", IntV(WithinDefaultLimit)))
  IN IF ~limit.ok THEN Raise(limit.err)
     ELSE IF Get(p, "lon") = NoneV \/ Get(p, "lat") = NoneV \/ Get(p, "radius_m") = NoneV
     THEN HTTPException(HttpBadRequest, "lon/lat/radius_m required")
     ELSE Proceed(<<Stmt(WithinSql,
                         <<Get(p, "lon"), Get(p, "lat"), Get(p, "radius_m"), IntV(limit.n)>>)>>)

\* buffer_analysis, lines 125-149
buffer_prologue(p) ==
  LET limit == PyInt(GetD(p, "limit", IntV(BufferDefaultLimit)))
  IN IF ~limit.ok THEN Raise(limit.err)
     ELSE IF Get(p, "lon") = NoneV \/ Get(p, "lat") = NoneV \/ Get(p, "buffer_m") = NoneV
     THEN HTTPException(HttpBadRequest, "lon/lat/buffer_m required")
     ELSE Proceed(<<Stmt(BufferSql, <<Get(p, "lon"), Get(p, "lat"), Get(p, "buffer_m")>>),
                    Stmt(HitsSql,
                         <<Get(p, "lon"), Get(p, "lat"), Get(p, "buffer_m"), IntV(limit.n)>>)>>)

\* polygon_area, lines 167-178
area_prologue(p) ==
  LET geom == parse_geojson_geometry(Get(p, "geojson"))
  IN IF ~geom.ok THEN Raise(geom.err)
     ELSE Proceed(<<Stmt(AreaSql, <<json_dumps(geom.val)>>)>>)

\* polygon_perimeter, lines 190-201
perimeter_prologue(p) ==
  LET geom == parse_geojson_geometry(Get(p, "geojson"))
  IN IF ~geom.ok THEN Raise(geom.err)
     ELSE Proceed(<<Stmt(PerimeterSql, <<json_dumps(geom.val)>>)>>)

\* knn, lines 213-230
knn_prologue(p) ==
  LET k == PyInt(GetD(p, "k", IntV(KnnDefaultK)))
  IN IF ~k.ok THEN Raise(k.err)
     ELSE IF Get(p, "lon") = NoneV \/ Get(p, "lat") = NoneV
     THEN HTTPException(HttpBadRequest, "lon/lat required")
     ELSE Proceed(<<Stmt(KnnSql, <<Get(p, "lon"), Get(p, "lat"), IntV(k.n)>>)>>)

\* [parse_geojson_geometry(g) for g in geoms]: the parses, in order
GeomList(geoms) == [i \in 1..Len(geoms.items) |-> parse_geojson_geometry(geoms.items[i])]

\* the first element of geoms that parse_geojson_geometry rejects, 0 if none
FirstRejected(geoms) ==
  LET bad == {i \in 1..Len(geoms.items) : ~GeomList(geoms)[i].ok}
  IN IF bad = {} THEN 0 ELSE CHOOSE i \in bad : \A j \in bad : i <= j

\* union_polygons, lines 243-277
union_prologue(p) ==
  LET region_ids == Get(p, "region_ids")
      geoms == Get(p, "geoms")
  IN IF Truthy(region_ids)
     THEN Proceed(<<Stmt(UnionIdsSql, <<region_ids>>)>>)
     ELSE IF Truthy(geoms)
     THEN IF FirstRejected(geoms) # 0
          THEN Raise(GeomList(geoms)[FirstRejected(geoms)].err)
          ELSE Proceed(<<Stmt(UnionGeomsSql,
                              <<ListV([i \in 1..Len(geoms.items) |->
                                         json_dumps(GeomList(geoms)[i].val)])>>)>>)
     ELSE HTTPException(HttpBadRequest, "Provide region_ids or geoms")

\* intersection, lines 283-301
intersection_prologue(p) ==
  IF Get(p, "a") = NoneV \/ Get(p, "b") = NoneV
  THEN HTTPException(HttpBadRequest, "Provide a and b (GeoJSON geometry or Feature)")
  ELSE LET ga == parse_geojson_geometry(Get(p, "a"))
           gb == parse_geojson_geometry(Get(p, "b"))
       IN IF ~ga.ok THEN Raise(ga.err)
          ELSE IF ~gb.ok THEN Raise(gb.err)
          ELSE Proceed(<<Stmt(IntersectionSql, <<json_dumps(ga.val), json_dumps(gb.val)>>)>>)

\* transform, lines 316-332
transform_prologue(p) ==
  LET to_epsg == PyInt(GetD(p, "to_epsg", IntV(TransformDefaultEpsg)))
      geom == parse_geojson_geometry(Get(p, "geojson"))
  IN IF ~to_epsg.ok THEN Raise(to_epsg.err)
     ELSE IF ~geom.ok THEN Raise(geom.err)
     ELSE Proceed(<<Stmt(TransformSql, <<json_dumps(geom.val), IntV(to_epsg.n)>>)>>)

\* the prologue of the handler of operation o
Prologue(o, p) ==
  CASE o = "pip" -> pip_prologue(p)
    [] o = "intersects" -> intersects_prologue(p)
    [] o = "within-distance" -> within_prologue(p)
    [] o = "buffer" -> buffer_prologue(p)
    [] o = "area" -> area_prologue(p)
    [] o = "perimeter" -> perimeter_prologue(p)
    [] o = "knn" -> knn_prologue(p)
    [] o = "union" -> union_prologue(p)
    [] o = "intersection" -> intersection_prologue(p)
    [] o = "transform" -> transform_prologue(p)

(***************************************************************************)
(* The values the model draws requests from.                               *)
(***************************************************************************)
Polygon == DictV(<<"Polygon">>, <<>>)
Point == DictV(<<"Point">>, <<>>)
\* what ST_AsGeoJSON gives for an empty geometry (the intersection of two
\* disjoint geometries): a GeoJSON object without coordinates, not NULL
EmptyGeometry == DictV(<<"GeometryCollection">>, <<>>)
NoType == DictV(<<>>, <<>>)
FeatureOf(g) == DictV(<<"Feature">>, <<g>>)
FeatureNoGeometry == DictV(<<"Feature">>, <<>>)

\* values of a geometry field (geojson, a, b)
GeoInputs ==
  {Absent, NumV(1), TextV("garbage"), NoType, Polygon, FeatureOf(Polygon),
   FeatureOf(NoneV), FeatureNoGeometry, JsonV(Polygon), JsonV(FeatureOf(Polygon)),
   JsonV(JsonV(Polygon)), JsonV(NumV(1))}
\* values of an element of geoms
GeomItems == {Polygon, FeatureOf(Polygon), TextV("garbage"), NoType}
\* values of lon, lat, radius_m, buffer_m
Coords == {Absent, NumV(30)}
\* values of limit, k, to_epsg
OptInts == {Absent, IntV(7), TextV("abc"), NoneV}
\* values of source
Sources ==
  {Absent, TextV("regions"), TextV("Regions"), TextV("features"), TextV("roads"),
   TextV(""), IntV(5)}
\* values of region_ids
RegionIds == {Absent, ListV(<<>>), ListV(<<IntV(1)>>)}
\* values of geoms
GeomLists ==
  {Absent, ListV(<<>>)}
    \cup UNION {{ListV(s) : s \in [1..n -> GeomItems]} : n \in 1..MaxGeoms}

NoPayload ==
  [lon |-> Absent, lat |-> Absent, radius_m |-> Absent, buffer_m |-> Absent,
   source |-> Absent, limit |-> Absent, k |-> Absent, to_epsg |-> Absent,
   geojson |-> Absent, a |-> Absent, b |-> Absent, region_ids |-> Absent,
   geoms |-> Absent]

Ops ==
  {"pip", "intersects", "within-distance", "buffer", "area", "perimeter", "knn",
   "union", "intersection", "transform"}

\* the request bodies of operation o
Payloads(o) ==
  CASE o = "pip" ->
         {[NoPayload EXCEPT !.lon = x, !.lat = y, !.source = s, !.limit = l] :
            x \in Coords, y \in Coords, s \in Sources, l \in OptInts}
    [] o = "intersects" ->
         {[NoPayload EXCEPT !.geojson = g, !.source = s, !.limit = l] :
            g \in GeoInputs, s \in Sources, l \in OptInts}
    [] o = "within-distance" ->
         {[NoPayload EXCEPT !.lon = x, !.lat = y, !.radius_m = r, !.limit = l] :
            x \in Coords, y \in Coords, r \in Coords, l \in OptInts}
    [] o = "buffer" ->
         {[NoPayload EXCEPT !.lon = x, !.lat = y, !.buffer_m = r, !.limit = l] :
            x \in Coords, y \in Coords, r \in Coords, l \in OptInts}
    [] o \in {"area", "perimeter"} ->
         {[NoPayload EXCEPT !.geojson = g] : g \in GeoInputs}
    [] o = "knn" ->
         {[NoPayload EXCEPT !.lon = x, !.lat = y, !.k = l] :
            x \in Coords, y \in Coords, l \in OptInts}
    [] o = "union" ->
         {[NoPayload EXCEPT !.region_ids = r, !.geoms = g] :
            r \in RegionIds, g \in GeomLists}
    [] o = "intersection" ->
         {[NoPayload EXCEPT !.a = x, !.b = y] : x \in GeoInputs, y \in GeoInputs}
    [] o = "transform" ->
         {[NoPayload EXCEPT !.geojson = g, !.to_epsg = l] :
            g \in GeoInputs, l \in OptInts}

(***************************************************************************)
(* The spatial engine: what a statement returns.  A result is the row      *)
(* fetchone gives and the rows fetchall gives.                             *)
(***************************************************************************)
\* the injective sequences over S of length at most n
SeqsOf(S, n) ==
  UNION {{s \in [1..m -> S] : \A i, j \in 1..m : i # j => s[i].id # s[j].id} :
           m \in 0..n}

\* a row of the features or regions table under pip and intersects
PlainRow(id) ==
  [id |-> IntV(id), name |-> TextV("name"), geom_geojson |-> Polygon]
\* a row of the features table under buffer (hits)
HitRow(id) ==
  [id |-> IntV(id), osmid |-> IntV(id), element_type |-> TextV("way"),
   name |-> TextV("name"), tags |-> NoneV, geom_geojson |-> Polygon]
\* a stored feature seen from the query point: its planar distance (the
\* value of geom <-> pt, in degrees), its geodesic distance (ST_Distance on
\* geography, in metres) and its geometry; a feature whose geom is NULL has
\* neither distance
Stored(id, planar, dist_m, geom) ==
  [id |-> id, planar |-> planar, dist_m |-> dist_m, geom |-> geom]
StoredFeatures ==
  {Stored(id, NumV(pl), NumV(d), Polygon) :
     id \in 1..MaxRows, pl \in 0..MaxDist, d \in 0..MaxDist}
    \cup {Stored(id, NoneV, NoneV, NoneV) : id \in 1..MaxRows}
\* the row the distance queries select for a stored feature
DistRow(f) ==
  [id |-> IntV(f.id), osmid |-> IntV(f.id), element_type |-> TextV("way"),
   name |-> TextV("name"), tags |-> NoneV, dist_m |-> f.dist_m,
   geom_geojson |-> f.geom]

\* ascending order with NULLs last (ORDER BY ... ASC)
LeqNullsLast(x, y) == y = NoneV \/ (x # NoneV /\ x.n <= y.n)
\* ORDER BY dist_m
OrderedByDistM(fs) == \A i \in 1..(Len(fs) - 1) : LeqNullsLast(fs[i].dist_m, fs[i + 1].dist_m)
\* ORDER BY geom <-> p.pt
OrderedByPlanar(fs) == \A i \in 1..(Len(fs) - 1) : LeqNullsLast(fs[i].planar, fs[i + 1].planar)

\* whether a bound geometry parameter is the JSON text null
NullGeometryParam(stmt) ==
  \E i \in 1..Len(stmt.params) :
    \/ stmt.params[i] = JsonV(NoneV)
    \/ /\ stmt.params[i].k = "list"
       /\ \E j \in 1..Len(stmt.params[i].items) : stmt.params[i].items[j] = JsonV(NoneV)

Result(row, rows) == [row |-> row, rows |-> rows]
LimitParam(stmt) == stmt.params[Len(stmt.params)].n

\* the results the engine can give for a statement that does not fail
EngineResults(stmt) ==
  CASE stmt.sql[1] = PipSql("")[1] \/ stmt.sql[1] = IntersectsSql("")[1] ->
         {Result(<<>>, [i \in 1..Len(s) |-> PlainRow(s[i].id)]) :
            s \in {t \in SeqsOf({[id |-> n] : n \in 1..MaxRows}, MaxRows) :
                     /\ Len(t) <= LimitParam(stmt)
                     /\ NullGeometryParam(stmt) => t = <<>>}}
    [] stmt.sql = HitsSql ->
         {Result(<<>>, [i \in 1..Len(s) |-> HitRow(s[i].id)]) :
            s \in {t \in SeqsOf({[id |-> n] : n \in 1..MaxRows}, MaxRows) :
                     Len(t) <= LimitParam(stmt)}}
    [] stmt.sql = WithinSql ->
         {Result(<<>>, [i \in 1..Len(s) |-> DistRow(s[i])]) :
            s \in {t \in SeqsOf(StoredFeatures, MaxRows) :
                     /\ Len(t) <= LimitParam(stmt)
                     /\ \A i \in 1..Len(t) : t[i].geom # NoneV
                     /\ OrderedByDistM(t)}}
    [] stmt.sql = KnnSql ->
         {Result(<<>>, [i \in 1..Len(s) |-> DistRow(s[i])]) :
            s \in {t \in SeqsOf(StoredFeatures, MaxRows) :
                     /\ Len(t) <= LimitParam(stmt)
                     /\ OrderedByPlanar(t)}}
    [] stmt.sql = BufferSql -> {Result([geom_geojson |-> Polygon], <<>>)}
    [] stmt.sql = AreaSql \/ stmt.sql = PerimeterSql ->
         IF NullGeometryParam(stmt) THEN {Result(<<NoneV, NoneV>>, <<>>)}
         ELSE {Result(<<NumV(n), [k |-> "num", n |-> n, per |-> d]>>, <<>>) :
                 n \in 0..1, d \in {IF stmt.sql = AreaSql THEN 1000000 ELSE 1000}}
    [] stmt.sql = UnionIdsSql -> {Result(<<NoneV>>, <<>>), Result(<<Polygon>>, <<>>)}
    [] stmt.sql = UnionGeomsSql ->
         IF NullGeometryParam(stmt) THEN {Result(<<NoneV>>, <<>>), Result(<<Polygon>>, <<>>)}
         ELSE {Result(<<Polygon>>, <<>>)}
    [] stmt.sql = IntersectionSql ->
         IF NullGeometryParam(stmt) THEN {Result(<<NoneV, NoneV>>, <<>>)}
         ELSE {Result(<<EmptyGeometry, NumV(0)>>, <<>>), Result(<<Point, NumV(0)>>, <<>>),
               Result(<<Polygon, NumV(1)>>, <<>>)}
    [] stmt.sql = TransformSql ->
         IF NullGeometryParam(stmt) THEN {Result(<<NoneV, NoneV>>, <<>>)}
         ELSE {Result(<<Polygon, Polygon>>, <<>>)}

(***************************************************************************)
(* What a handler's code after its `with` block comes to: the response.    *)
(***************************************************************************)
Response(status, detail, body) == [status |-> status, detail |-> detail, body |-> body]
NoResponse == Response(0, "", NoneV)
\* the response to an exception that is no HTTPException
ServerError == Response(HttpServerError, "Internal Server Error", NoneV)
Ok(body) == Response(HttpOk, "", body)

\* float(v)
PyFloat(v) ==
  IF v.k \in {"int", "num"} THEN [ok |-> TRUE, val |-> v, err |-> ""]
  ELSE [ok |-> FALSE, val |-> NoneV, err |-> "TypeError"]

\* the outcome of the code after the `with` block: the exception raised
\* ("" when none) and the response
Outcome(e, r) == [exc |-> e, resp |-> r]

\* polygon_area line 184, polygon_perimeter line 207
measure_epilogue(o, rw) ==
  IF ~PyFloat(rw[1]).ok \/ ~PyFloat(rw[2]).ok THEN Outcome("TypeError", ServerError)
  ELSE IF o = "area"
  THEN Outcome("", Ok([area_m2 |-> rw[1], area_km2 |-> rw[2]]))
  ELSE Outcome("", Ok([perimeter_m |-> rw[1], perimeter_km |-> rw[2]]))

\* buffer_analysis, lines 158-161
buffer_epilogue(p, rw, rws) ==
  Outcome("", Ok([buffer |-> one_geom_to_feature(rw["geom_geojson"],
                                                 [buffer_m |-> Get(p, "buffer_m")]),
                  hits |-> rows_to_featurecollection(rws, "geom_geojson")]))

\* union_polygons returning the Feature without looking at row[0]
union_epilogue_unchecked(p, rw) ==
  IF Truthy(Get(p, "region_ids"))
  THEN Outcome("", Ok(one_geom_to_feature(rw[1],
                        [source |-> TextV("regions"), region_ids |-> Get(p, "region_ids")])))
  ELSE Outcome("", Ok(one_geom_to_feature(rw[1],
                        [source |-> TextV("geoms"),
                         count |-> IntV(Len(Get(p, "geoms").items))])))

\* union_polygons, lines 256-258 and 275
union_epilogue(p, rw) ==
  IF Truthy(Get(p, "region_ids"))
  THEN IF rw = <<>> \/ rw[1] = NoneV
       THEN Outcome("HTTPException",
                    Response(HttpNotFound, "No geometries found for given region_ids", NoneV))
       ELSE Outcome("", Ok(one_geom_to_feature(rw[1],
                             [source |-> TextV("regions"), region_ids |-> Get(p, "region_ids")])))
  ELSE Outcome("", Ok(one_geom_to_feature(rw[1],
                        [source |-> TextV("geoms"),
                         count |-> IntV(Len(Get(p, "geoms").items))])))

\* intersection, lines 307-310
intersection_epilogue(rw) ==
  IF rw[1] = NoneV
  THEN Outcome("", Ok([type |-> "Feature", geometry |-> NoneV,
                       properties |-> [area_m2 |-> NumV(0)]]))
  ELSE IF ~PyFloat(rw[2]).ok THEN Outcome("TypeError", ServerError)
  ELSE Outcome("", Ok(one_geom_to_feature(rw[1], [area_m2 |-> PyFloat(rw[2]).val])))

\* transform, lines 338-341
transform_epilogue(p, rw) ==
  Outcome("", Ok(one_geom_to_feature(rw[1],
                   [to_epsg |-> IntV(PyInt(GetD(p, "to_epsg", IntV(TransformDefaultEpsg))).n),
                    geom_transformed |-> rw[2]])))

\* the code after the `with` block of the handler of operation o
Epilogue(o, p, rw, rws) ==
  CASE o \in {"pip", "intersects", "within-distance", "knn"} ->
         Outcome("", Ok(rows_to_featurecollection(rws, "geom_geojson")))
    [] o = "buffer" -> buffer_epilogue(p, rw, rws)
    [] o \in {"area", "perimeter"} -> measure_epilogue(o, rw)
    [] o = "union" -> union_epilogue(p, rw)
    [] o = "intersection" -> intersection_epilogue(rw)
    [] o = "transform" -> transform_epilogue(p, rw)

(***************************************************************************)
(* The state of one request.                                               *)
(*   op, payload  the operation requested and its body                     *)
(*   pc           where the handler is: start, connect, execute,           *)
(*                exit_with, return, done                                  *)
(*   conn         the connection of the request: none, open, closed        *)
(*   nconn        how many connections the handler has acquired            *)
(*   txn          the transaction of the connection: none, active,         *)
(*                committed, rolledback                                    *)
(*   queries      the statements executed, in order, each with its outcome *)
(*   row, rows    what fetchone and fetchall last gave                     *)
(*   exc          the exception that left the handler ("" when none)       *)
(*   resp         the response                                             *)
(*   call, ret    the argument and the result of an adapter function       *)
(*                applied on its own                                       *)
(***************************************************************************)
VARIABLES op, payload, pc, conn, nconn, txn, queries, row, rows, exc, resp, call, ret

vars == <<op, payload, pc, conn, nconn, txn, queries, row, rows, exc, resp, call, ret>>

NoCall == [fn |-> "none"]

Init ==
  /\ op \in Ops
  /\ payload \in Payloads(op)
  /\ pc = "start"
  /\ conn = "none"
  /\ nconn = 0
  /\ txn = "none"
  /\ queries = <<>>
  /\ row = <<>>
  /\ rows = <<>>
  /\ exc = ""
  /\ resp = NoResponse
  /\ call = NoCall
  /\ ret = NoCall

\* the handler's code up to its `with` block came to r: the exception
\* leaves the handler, or the handler goes on to get_conn()
Enter(r) ==
  /\ pc = "start"
  /\ IF r.out = "raise"
     THEN /\ pc' = "done"
          /\ exc' = r.exc
          /\ resp' = Response(r.status, r.detail, NoneV)
     ELSE /\ pc' = "connect"
          /\ UNCHANGED <<exc, resp>>
  /\ UNCHANGED <<op, payload, conn, nconn, txn, queries, row, rows, call, ret>>

point_in_polygon ==
  /\ op = "pip"
  /\ Enter(pip_prologue(payload))

polygon_intersects ==
  /\ op = "intersects"
  /\ Enter(intersects_prologue(payload))

within_distance ==
  /\ op = "within-distance"
  /\ Enter(within_prologue(payload))

buffer_analysis ==
  /\ op = "buffer"
  /\ Enter(buffer_prologue(payload))

polygon_area ==
  /\ op = "area"
  /\ Enter(area_prologue(payload))

polygon_perimeter ==
  /\ op = "perimeter"
  /\ Enter(perimeter_prologue(payload))

knn ==
  /\ op = "knn"
  /\ Enter(knn_prologue(payload))

union_polygons ==
  /\ op = "union"
  /\ Enter(union_prologue(payload))

intersection ==
  /\ op = "intersection"
  /\ Enter(intersection_prologue(payload))

transform ==
  /\ op = "transform"
  /\ Enter(transform_prologue(payload))

\* get_conn(): psycopg2.connect gives an open connection, or raises
get_conn ==
  /\ pc = "connect"
  /\ \/ /\ conn' = "open"
        /\ nconn' = nconn + 1
        /\ pc' = "execute"
        /\ UNCHANGED <<exc, resp>>
     \/ /\ exc' = "OperationalError"
        /\ resp' = ServerError
        /\ pc' = "done"
        /\ UNCHANGED <<conn, nconn>>
  /\ UNCHANGED <<op, payload, txn, queries, row, rows, call, ret>>

Executed(stmt, outcome) == [sql |-> stmt.sql, params |-> stmt.params, outcome |-> outcome]

\* a failed statement executed again before the error leaves the handler
OnQueryErrorRetry(log, stmt) ==
  Append(Append(log, Executed(stmt, "error")), Executed(stmt, "error"))

\* cur.execute raises: the statement was executed once, and the exception
\* propagates out of the `with` block
OnQueryError(log, stmt) == Append(log, Executed(stmt, "error"))

\* cur.execute(sql, params) and the fetch after it, for the next statement
\* of the handler.  When the statement fails the exception leaves the `with`
\* block: the connection's __exit__ rolls the transaction back and leaves
\* the connection open, and the exception leaves the handler.
execute ==
  /\ pc = "execute"
  /\ LET stmts == Prologue(op, payload).stmts
         stmt == stmts[Len(queries) + 1]
     IN \/ \E res \in EngineResults(stmt) :
             /\ queries' = Append(queries, Executed(stmt, "ok"))
             /\ row' = (IF res.row = <<>> THEN row ELSE res.row)
             /\ rows' = res.rows
             /\ txn' = "active"
             /\ pc' = (IF Len(queries) + 1 < Len(stmts) THEN "execute" ELSE "exit_with")
             /\ UNCHANGED <<exc, resp>>
        \/ /\ queries' = OnQueryError(queries, stmt)
           /\ txn' = "rolledback"
           /\ exc' = "DatabaseError"
           /\ resp' = ServerError
           /\ pc' = "done"
           /\ UNCHANGED <<row, rows>>
  /\ UNCHANGED <<op, payload, conn, nconn, call, ret>>

\* the end of the `with` block without an exception: the cursor is closed
\* and the connection's __exit__ commits; a psycopg2 connection is not
\* closed by its context manager
exit_with ==
  /\ pc = "exit_with"
  /\ txn' = "committed"
  /\ pc' = "return"
  /\ UNCHANGED <<op, payload, conn, nconn, queries, row, rows, exc, resp, call, ret>>

\* the handler's code after the `with` block.  On a return the frame's
\* locals are dropped and the connection object, referenced by nothing
\* else, is finalised (closed); an exception keeps the frame, and with it
\* the open connection, alive in its traceback.
return ==
  /\ pc = "return"
  /\ LET out == Epilogue(op, payload, row, rows)
     IN /\ exc' = out.exc
        /\ resp' = out.resp
        /\ conn' = (IF out.exc = "" THEN "closed" ELSE "open")
  /\ pc' = "done"
  /\ UNCHANGED <<op, payload, nconn, txn, queries, row, rows, call, ret>>

\* the exception of a finished request is discarded: its traceback, the
\* frame and the connection object are reclaimed, which closes the
\* connection
reclaim ==
  /\ pc = "done"
  /\ conn = "open"
  /\ conn' = "closed"
  /\ UNCHANGED <<op, payload, pc, nconn, txn, queries, row, rows, exc, resp, call, ret>>

Next ==
  \/ point_in_polygon
  \/ polygon_intersects
  \/ within_distance
  \/ buffer_analysis
  \/ polygon_area
  \/ polygon_perimeter
  \/ knn
  \/ union_polygons
  \/ intersection
  \/ transform
  \/ get_conn
  \/ execute
  \/ exit_with
  \/ return
  \/ reclaim

Spec == Init /\ [][Next]_vars

(***************************************************************************)
(* The adapter functions applied on their own, to arguments drawn from     *)
(* bounded sets.                                                           *)
(***************************************************************************)
Idle ==
  /\ op = "none"
  /\ payload = NoPayload
  /\ pc = "idle"
  /\ conn = "none"
  /\ nconn = 0
  /\ txn = "none"
  /\ queries = <<>>
  /\ row = <<>>
  /\ rows = <<>>
  /\ exc = ""
  /\ resp = NoResponse

\* the "type" values of the mappings drawn; "<null>" stands for a type
\* that is present and None
TypeFields == {<<>>, <<"Feature">>, <<"Polygon">>, <<"Point">>, <<"<null>">>}
GeometryFields == {<<>>, <<NoneV>>, <<Polygon>>, <<Point>>}
PlainValues ==
  {NoneV, NumV(1), IntV(1), ListV(<<>>), TextV("garbage"), TextV("")}
    \cup {DictV(ty, geo) : ty \in TypeFields, geo \in GeometryFields}

\* S and the strings that hold the JSON text of a value of S, d times over
RECURSIVE Wrapped(_, _)
Wrapped(S, d) ==
  IF d = 0 THEN S ELSE S \cup {JsonV(v) : v \in Wrapped(S, d - 1)}

JsonValues == Wrapped(PlainValues, MaxDepth)

InitParse ==
  /\ Idle
  /\ call \in {[fn |-> "parse_geojson_geometry", geojson_obj |-> v] : v \in JsonValues}
  /\ ret = NoCall

ApplyParse ==
  /\ call.fn = "parse_geojson_geometry"
  /\ ret = NoCall
  /\ ret' = [fn |-> call.fn, res |-> parse_geojson_geometry(call.geojson_obj)]
  /\ UNCHANGED <<op, payload, pc, conn, nconn, txn, queries, row, rows, exc, resp, call>>

SpecParse == InitParse /\ [][ApplyParse]_vars

\* rows: mappings from some of the columns to a value
RowColumns == {"geom_geojson", "id"}
RowValues == {NoneV, Polygon, IntV(1)}
RowsDrawn == UNION {[D -> RowValues] : D \in SUBSET RowColumns}
RowSeqs == UNION {[1..n -> RowsDrawn] : n \in 0..MaxFcRows}

InitRows ==
  /\ Idle
  /\ call \in {[fn |-> "rows_to_featurecollection", rows |-> rs, geom_key |-> g] :
                 rs \in RowSeqs, g \in RowColumns}
  /\ ret = NoCall

ApplyRows ==
  /\ call.fn = "rows_to_featurecollection"
  /\ ret = NoCall
  /\ ret' = [fn |-> call.fn, res |-> rows_to_featurecollection(call.rows, call.geom_key)]
  /\ UNCHANGED <<op, payload, pc, conn, nconn, txn, queries, row, rows, exc, resp, call>>

SpecRows == InitRows /\ [][ApplyRows]_vars

(***************************************************************************)
(* The vocabulary of the properties.                                       *)
(***************************************************************************)
\* the required fields of operation o that the body p lacks
MissingFields(o, p) ==
  LET required ==
        CASE o \in {"pip", "knn"} -> {"lon", "lat"}
          [] o = "within-distance" -> {"lon", "lat", "radius_m"}
          [] o = "buffer" -> {"lon", "lat", "buffer_m"}
          [] o \in {"intersects", "area", "perimeter", "transform"} -> {"geojson"}
          [] o = "intersection" -> {"a", "b"}
          [] OTHER -> {}
  IN IF o = "union"
     THEN IF p.region_ids \in {Absent, NoneV} /\ p.geoms \in {Absent, NoneV}
          THEN {"region_ids", "geoms"} ELSE {}
     ELSE {f \in required : p[f] \in {Absent, NoneV}}

\* the field names a response's message names
Mentions(detail) ==
  CASE detail = "lon/lat required" -> {"lon", "lat"}
    [] detail = "lon/lat/radius_m required" -> {"lon", "lat", "radius_m"}
    [] detail = "lon/lat/buffer_m required" -> {"lon", "lat", "buffer_m"}
    [] detail = "Provide region_ids or geoms" -> {"region_ids", "geoms"}
    [] detail = "Provide a and b (GeoJSON geometry or Feature)" -> {"a", "b"}
    [] OTHER -> {}

ClientError(r) == r.status \in 400..499

\* a supplied geometry the adapter rejects: a string that is no JSON text,
\* a decoded value that is no mapping, a mapping without a type
Decoded(v) == IF v.k = "json" THEN v.enc ELSE v
Rejected(v) ==
  /\ v \notin {Absent, NoneV}
  /\ \/ v.k = "text"
     \/ Decoded(v).k # "dict"
     \/ Decoded(v).ty = <<>>

\* the geometries of the body p that operation o hands to the adapter
SuppliedGeometries(o, p) ==
  CASE o \in {"intersects", "area", "perimeter", "transform"} -> {p.geojson}
    [] o = "intersection" -> {p.a, p.b}
    [] o = "union" ->
         IF p.region_ids \in {Absent, NoneV, ListV(<<>>)} /\ p.geoms.k = "list"
         THEN {p.geoms.items[i] : i \in 1..Len(p.geoms.items)} ELSE {}
    [] OTHER -> {}

\* the engine answered the union-by-ids query with a null union
NullUnion ==
  /\ Len(queries) = 1
  /\ queries[1].outcome = "ok"
  /\ queries[1].sql = UnionIdsSql
  /\ row = <<NoneV>>

(***************************************************************************)
(* C1: for every POST operation, a body that lacks a required field ends   *)
(* in a 4xx response naming the missing fields, whatever the optional      *)
(* fields are.                                                             *)
(***************************************************************************)
C1_MissingFieldIsClientError ==
  (pc = "done" /\ MissingFields(op, payload) # {})
    => /\ ClientError(resp)
       /\ MissingFields(op, payload) \subseteq Mentions(resp.detail)

(***************************************************************************)
(* C2: when the adapter rejects a supplied geometry, the request ends in a *)
(* 4xx response and no query is executed.                                  *)
(***************************************************************************)
C2_RejectedGeometryIsClientError ==
  (pc = "done" /\ \E v \in SuppliedGeometries(op, payload) : Rejected(v))
    => /\ ClientError(resp)
       /\ queries = <<>>

(***************************************************************************)
(* C3, as claimed: a union request whose region_ids is the empty list, or  *)
(* is non-empty and matches no row, ends in a 404 response, whatever geoms *)
(* is.                                                                     *)
(***************************************************************************)
C3_EmptyOrUnmatchedIdsNotFound ==
  (/\ op = "union"
   /\ pc = "done"
   /\ \/ payload.region_ids = ListV(<<>>)
      \/ Truthy(payload.region_ids) /\ NullUnion)
    => resp.status = HttpNotFound

(***************************************************************************)
(* C3, amended: a union request whose region_ids is non-empty and whose    *)
(* query gives a null union ends in a 404 response, whatever geoms is; an  *)
(* empty region_ids counts as not supplied: the request ends in a 400      *)
(* response without a query when geoms is absent or empty, and otherwise   *)
(* takes the geoms path and never ends in 404.                             *)
(***************************************************************************)
C3_UnmatchedIdsNotFound ==
  (op = "union" /\ pc = "done")
    => /\ (Truthy(payload.region_ids) /\ NullUnion) => resp.status = HttpNotFound
       /\ (payload.region_ids = ListV(<<>>) /\ ~Truthy(payload.geoms))
            => (resp.status = HttpBadRequest /\ queries = <<>>)
       /\ (payload.region_ids = ListV(<<>>) /\ Truthy(payload.geoms))
            => /\ resp.status # HttpNotFound
               /\ \A i \in 1..Len(queries) : queries[i].sql = UnionGeomsSql

C3_Witness ==
  /\ op = "union"
  /\ pc = "done"
  /\ payload.region_ids = ListV(<<IntV(1)>>)
  /\ payload.geoms = ListV(<<Polygon>>)
  /\ NullUnion
  /\ resp.status = HttpNotFound

(***************************************************************************)
(* C4: a handler acquires at most one connection, and no finished request  *)
(* still holds an open connection.                                         *)
(***************************************************************************)
C4_ConnectionReleasedOnExit ==
  /\ nconn <= 1
  /\ pc = "done" => conn # "open"

(***************************************************************************)
(* C5: the features of rows_to_featurecollection(rows, geom_key) are the   *)
(* rows whose geom_key column is present and not null, in the order of the *)
(* input; each is a Feature whose geometry is that column's value and      *)
(* whose properties are the row without that column.                       *)
(***************************************************************************)
C5_FeaturesAreRowsWithGeometry ==
  ret # NoCall =>
    LET rs == call.rows
        g == call.geom_key
        fs == ret.res.features
        keep == {i \in 1..Len(rs) : g \in DOMAIN rs[i] /\ rs[i][g] # NoneV}
        nth(j) == CHOOSE i \in keep : Cardinality({m \in keep : m <= i}) = j
    IN /\ ret.res.type = "FeatureCollection"
       /\ Len(fs) = Cardinality(keep)
       /\ \A j \in 1..Len(fs) :
            /\ fs[j].type = "Feature"
            /\ fs[j].geometry = rs[nth(j)][g]
            /\ DOMAIN fs[j].properties = (DOMAIN rs[nth(j)]) \ {g}
            /\ \A c \in DOMAIN fs[j].properties : fs[j].properties[c] = rs[nth(j)][c]

C5_Witness ==
  /\ ret # NoCall
  /\ call.fn = "rows_to_featurecollection"
  /\ call.geom_key = "geom_geojson"
  /\ Len(call.rows) = 2
  /\ call.rows[1] = [id |-> IntV(1)]
  /\ call.rows[2] = [geom_geojson |-> Polygon, id |-> IntV(1)]
  /\ Len(ret.res.features) = 1
  /\ ret.res.features[1].properties = [id |-> IntV(1)]

(***************************************************************************)
(* C6: parse_geojson_geometry decodes a string input once; it fails when   *)
(* the input is absent, is a string that does not decode, is after         *)
(* decoding no mapping, or is a mapping without a type; otherwise it       *)
(* returns the geometry field (None when null or absent) of a Feature and  *)
(* any other mapping unchanged.                                            *)
(***************************************************************************)
C6_ParseGeometry ==
  ret # NoCall =>
    LET x == call.geojson_obj
        d == Decoded(x)
        fails == \/ x = NoneV
                 \/ x.k = "text"
                 \/ d.k # "dict"
                 \/ d.ty = <<>>
    IN /\ ret.res.ok = ~fails
       /\ (~fails /\ d.ty = <<"Feature">>)
            => ret.res.val = (IF d.geo = <<>> THEN NoneV ELSE d.geo[1])
       /\ (~fails /\ d.ty # <<"Feature">>) => ret.res.val = d

C6_Witness ==
  /\ ret # NoCall
  /\ call.fn = "parse_geojson_geometry"
  /\ call.geojson_obj = JsonV(FeatureOf(Polygon))
  /\ ret.res.ok
  /\ ret.res.val = Polygon

(***************************************************************************)
(* C7: the features of a within-distance or knn response are in            *)
(* non-decreasing order of their dist_m property.                          *)
(***************************************************************************)
C7_FeaturesOrderedByDistance ==
  (pc = "done" /\ op \in {"within-distance", "knn"} /\ resp.status = HttpOk)
    => \A i \in 1..(Len(resp.body.features) - 1) :
         resp.body.features[i].properties.dist_m.n
           <= resp.body.features[i + 1].properties.dist_m.n

(***************************************************************************)
(* C8, as claimed: the text of every query executed is the text any other  *)
(* body of the same operation would send, given only that the two bodies   *)
(* agree on whether the lower-cased source is "regions" (pip and           *)
(* intersects).                                                            *)
(***************************************************************************)
SourceIsRegions(p) == p.source.k = "text" /\ str_lower(p.source) = TextV("regions")

C8_TextFixedByOperationAndSource ==
  \A i \in 1..Len(queries) :
    \A p2 \in Payloads(op) :
      (/\ Prologue(op, p2).out = "ok"
       /\ op \in {"pip", "intersects"} => SourceIsRegions(p2) = SourceIsRegions(payload))
        => Prologue(op, p2).stmts[i].sql = queries[i].sql

(***************************************************************************)
(* C8, amended: the text of every query executed is the text any other     *)
(* body of the same operation would send, given that the two bodies agree  *)
(* on whether the lower-cased source is "regions" (pip and intersects) and *)
(* on whether region_ids is a non-empty list (union, which sends one text  *)
(* for region_ids and another for geoms); the only interpolated piece of a *)
(* text is one of the two configured table names.                          *)
(***************************************************************************)
C8_TextFixedByOperationAndSelector ==
  \A i \in 1..Len(queries) :
    /\ Len(queries[i].sql) = 3 => queries[i].sql[2] \in {REGIONS_TABLE, FEATURES_TABLE}
    /\ \A p2 \in Payloads(op) :
         (/\ Prologue(op, p2).out = "ok"
          /\ op \in {"pip", "intersects"} => SourceIsRegions(p2) = SourceIsRegions(payload)
          /\ op = "union" => Truthy(p2.region_ids) = Truthy(payload.region_ids))
           => Prologue(op, p2).stmts[i].sql = queries[i].sql

C8_Witness ==
  /\ op = "pip"
  /\ pc = "done"
  /\ payload.source = TextV("roads")
  /\ payload.limit = IntV(7)
  /\ Len(queries) = 1
  /\ queries[1].sql[2] = FEATURES_TABLE
  /\ queries[1].params = <<NumV(30), NumV(30), IntV(7)>>

(***************************************************************************)
(* C9: for an intersection request whose a and b the adapter accepts, an   *)
(* empty or null intersection gives a Feature with geometry null and       *)
(* area_m2 0.0, and any other gives a Feature with the engine's geometry   *)
(* and area; the handler does not fail on the engine's area.               *)
(***************************************************************************)
C9_EmptyIntersectionIsNullFeature ==
  (/\ op = "intersection"
   /\ pc = "done"
   /\ Len(queries) = 1
   /\ queries[1].outcome = "ok")
    => /\ resp.status = HttpOk
       /\ IF row[1] \in {NoneV, EmptyGeometry}
          THEN /\ resp.body.geometry = NoneV
               /\ resp.body.properties.area_m2 = NumV(0)
          ELSE /\ resp.body.geometry = row[1]
               /\ resp.body.properties.area_m2 = row[2]

(***************************************************************************)
(* C10: a request rejected for a missing field or for a geometry the       *)
(* adapter rejects (an element of the union geoms list included) acquires  *)
(* no connection and executes no query; and no handler executes a query    *)
(* twice or executes anything after a query failed.                        *)
(***************************************************************************)
C10_ValidationBeforeConnection ==
  /\ (\/ MissingFields(op, payload) # {}
      \/ \E v \in SuppliedGeometries(op, payload) : Rejected(v))
       => (nconn = 0 /\ conn = "none" /\ queries = <<>>)
  /\ \A i, j \in 1..Len(queries) : i # j => queries[i].sql # queries[j].sql
  /\ \A i \in 1..(Len(queries) - 1) : queries[i].outcome = "ok"

C10_Witness ==
  /\ op = "union"
  /\ pc = "done"
  /\ payload.region_ids = ListV(<<>>)
  /\ payload.geoms = ListV(<<Polygon, TextV("garbage")>>)
  /\ exc = "JSONDecodeError"
  /\ nconn = 0
  /\ queries = <<>>

====
